---- MODULE Spec2Model ----
(***************************************************************************)
(* Restly activity analysis and scoring engine.                            *)
(*                                                                         *)
(* The model follows src/daily_summary.py (ActivityAnalyzer) and the       *)
(* scoring part of src/dashboard_server.py (RestlyDashboard).              *)
(*                                                                         *)
(* Representation of Python values:                                        *)
(*   - a dict is a TLA+ record; a key the dict lacks is a field the record *)
(*     lacks (d[k] on it is a KeyError, d.get(k, x) is Get(d, k, x));      *)
(*   - a dict whose iteration order matters (hourly_activity) is the       *)
(*     sequence of its items in insertion order;                           *)
(*   - a float is an exact rational <<num, den>> with den > 0; a float that *)
(*     went through round(x, 1) is held as an integer number of tenths     *)
(*     (200.0 is 2000, 33.3 is 333);                                       *)
(*   - a timestamp is the string of the log; datetime.fromisoformat and    *)
(*     the string order are tabulated for the strings the logs use.        *)
(***************************************************************************)
EXTENDS Integers, Sequences, FiniteSets, TLC

(***************************************************************************)
(* Bounds of the model.                                                    *)
(***************************************************************************)
MaxLen == 3
MaxScoreLen == 5

(***************************************************************************)
(* Python helpers.                                                         *)
(***************************************************************************)
EmptyDict == [k \in {} |-> 0]

HasKey(d, k) == k \in DOMAIN d

Get(d, k, default) == IF k \in DOMAIN d THEN d[k] ELSE default

Min2(a, b) == IF a <= b THEN a ELSE b

Max2(a, b) == IF a >= b THEN a ELSE b

RECURSIVE Gcd(_, _)
Gcd(a, b) == IF b = 0 THEN a ELSE Gcd(b, a % b)

(* Rationals <<num, den>> in lowest terms, den > 0, standing for the      *)
(* floats of the code.                                                     *)
Frac(n, d) ==
    LET g == Gcd(IF n < 0 THEN -n ELSE n, d)
    IN  <<n \div g, d \div g>>

FracOfInt(n) == <<n, 1>>

FracOfTenths(t) == Frac(t, 10)

FracAdd(a, b) == Frac(a[1] * b[2] + b[1] * a[2], a[2] * b[2])

FracDivInt(a, n) == Frac(a[1], a[2] * n)

FracMulInt(a, n) == Frac(a[1] * n, a[2])

FracLess(a, b) == a[1] * b[2] < b[1] * a[2]

FracEq(a, b) == a[1] * b[2] = b[1] * a[2]

FracMin(a, b) == IF FracLess(b, a) THEN b ELSE a

(* round(num/den) to the nearest integer, ties to the even neighbour:     *)
(* Python's round() on a value the float holds exactly.                   *)
RoundHalfEven(num, den) ==
    LET q == num \div den
        r == num % den
    IN  IF 2 * r > den \/ (2 * r = den /\ q % 2 = 1) THEN q + 1 ELSE q

(* round(x, 1), the result in tenths. *)
Round1(x) == RoundHalfEven(10 * x[1], x[2])

(***************************************************************************)
(* Timestamps.  The strings found in the logs, the lexicographic order     *)
(* Python's min()/max() compare them by, and datetime.fromisoformat on     *)
(* them: the two well-formed kinds parse, "" and free text raise           *)
(* ValueError.  All well-formed timestamps are naive local times of the    *)
(* same day, a multiple of ten minutes apart.                              *)
(***************************************************************************)
T0900 == "2024-01-15T09:00:00"
T0920 == "2024-01-15T09:20:00"
T1130 == "2024-01-15T11:30:00"
T1400 == "2024-01-15T14:00:00"
TBad  == "not-a-time"

StrRank(s) ==
    CASE s = ""    -> 0
      [] s = T0900 -> 1
      [] s = T0920 -> 2
      [] s = T1130 -> 3
      [] s = T1400 -> 4
      [] s = TBad  -> 5

StrLess(a, b) == StrRank(a) < StrRank(b)

FromIsoformat(s) ==
    CASE s = T0900 -> [ok |-> TRUE, hour |-> 9, minute |-> 540]
      [] s = T0920 -> [ok |-> TRUE, hour |-> 9, minute |-> 560]
      [] s = T1130 -> [ok |-> TRUE, hour |-> 11, minute |-> 690]
      [] s = T1400 -> [ok |-> TRUE, hour |-> 14, minute |-> 840]
      [] OTHER     -> [ok |-> FALSE, hour |-> 0, minute |-> 0]

(***************************************************************************)
(* The lines of a day's log.  A line is a JSON object (an ActivityEvent),  *)
(* text json.loads rejects, or a blank line.                               *)
(***************************************************************************)
JsonLine(e) == [text |-> "json", obj |-> e]
MalformedLine == [text |-> "malformed"]
BlankLine == [text |-> "blank"]

EvShownEyeCare ==
    [timestamp |-> T0900, event_type |-> "break_shown",
     event_data |-> [break_type |-> "eye_care"]]
EvShownNoTimestamp ==
    [event_type |-> "break_shown", event_data |-> [break_type |-> "stretch"]]
EvCompleted ==
    [timestamp |-> T0920, event_type |-> "break_completed",
     event_data |-> EmptyDict,
     system_state |-> [total_work_minutes_today |-> 50]]
EvDeepWork ==
    [timestamp |-> T1130, event_type |-> "session_started",
     event_data |-> [session_type |-> "deep_work"],
     system_state |-> [total_work_minutes_today |-> 600]]
EvCommandBadTimestamp ==
    [timestamp |-> TBad, event_type |-> "command_received",
     event_data |-> EmptyDict, system_state |-> EmptyDict]
EvRescheduled ==
    [timestamp |-> T1400, event_type |-> "break_rescheduled",
     event_data |-> EmptyDict]
EvUnknownType ==
    [timestamp |-> T1130, event_type |-> "app_started"]
EvShownCustom ==
    [timestamp |-> T1400, event_type |-> "break_shown",
     event_data |-> [break_type |-> "custom_message"]]
EvPomodoro ==
    [timestamp |-> T0920, event_type |-> "session_started",
     event_data |-> [session_type |-> "pomodoro"]]
EvPauseToggled ==
    [timestamp |-> T1400, event_type |-> "pause_toggled",
     event_data |-> EmptyDict]

(* The lines the producer writes in the general specification. *)
LogLines ==
    { JsonLine(EvShownEyeCare), JsonLine(EvShownNoTimestamp),
      JsonLine(EvCompleted), JsonLine(EvDeepWork),
      JsonLine(EvCommandBadTimestamp), JsonLine(EvRescheduled),
      JsonLine(EvUnknownType), JsonLine(EvShownCustom),
      JsonLine(EvPomodoro), JsonLine(EvPauseToggled), MalformedLine }

(* The lines of the scoring specification: long days of few event kinds. *)
ScoreLines ==
    { JsonLine(EvShownEyeCare), JsonLine(EvCompleted), JsonLine(EvDeepWork) }

(* The lines of the specification of failing reads. *)
IoLines ==
    { JsonLine(EvCompleted), JsonLine(EvDeepWork), MalformedLine, BlankLine }

(***************************************************************************)
(* ActivityAnalyzer.load_daily_activities.  failAt is the number of lines  *)
(* read before an IOError ends the read (0: open() fails), NoFail when the *)
(* read reaches the end of the file.                                       *)
(***************************************************************************)
NoFail == -1

(* The read given up at the first line json.loads rejects. *)
RECURSIVE DecodeLinesUntilMalformed(_)
DecodeLinesUntilMalformed(lines) ==
    IF lines = <<>> THEN <<>>
    ELSE LET line == Head(lines)
         IN  IF line.text = "malformed" THEN <<>>
             ELSE IF line.text = "json"
                  THEN <<line.obj>> \o DecodeLinesUntilMalformed(Tail(lines))
                  ELSE DecodeLinesUntilMalformed(Tail(lines))

RECURSIVE DecodeLines(_)
DecodeLines(lines) ==
    IF lines = <<>> THEN <<>>
    ELSE LET line == Head(lines)
             rest == DecodeLines(Tail(lines))
         IN  IF line.text = "json" THEN <<line.obj>> \o rest ELSE rest

load_daily_activities(exists, lines, failAt) ==
    IF ~exists THEN <<>>
    ELSE IF failAt = NoFail THEN DecodeLines(lines)
    ELSE DecodeLines(SubSeq(lines, 1, failAt))

(***************************************************************************)
(* ActivityAnalyzer.analyze_daily_patterns.                                *)
(***************************************************************************)
EmptyAnalysis ==
    [total_breaks |-> 0, total_work_minutes |-> 0, break_compliance |-> 0,
     deep_work_sessions |-> 0, commands_used |-> 0, pause_events |-> 0,
     break_types |-> EmptyDict, hourly_activity |-> <<>>, insights |-> <<>>]

InitCounters ==
    [break_count |-> 0, break_completed_count |-> 0, deep_work_sessions |-> 0,
     commands_used |-> 0, pause_events |-> 0,
     break_types |-> [eye_care |-> 0, custom_message |-> 0],
     hourly_activity |-> <<>>, reschedule_count |-> 0]

(* final_work_minutes taken from the most recent activity that carries it. *)
RECURSIVE FinalWorkMinutesMostRecent(_)
FinalWorkMinutesMostRecent(activities) ==
    IF activities = <<>> THEN 0
    ELSE LET last_activity == activities[Len(activities)]
         IN  IF HasKey(last_activity, "system_state")
                /\ HasKey(last_activity.system_state, "total_work_minutes_today")
             THEN last_activity.system_state.total_work_minutes_today
             ELSE FinalWorkMinutesMostRecent(SubSeq(activities, 1, Len(activities) - 1))

(* final_work_minutes: read from the last activity only. *)
FinalWorkMinutes(activities) ==
    IF activities = <<>> THEN 0
    ELSE LET last_activity == activities[Len(activities)]
         IN  IF HasKey(last_activity, "system_state")
             THEN Get(last_activity.system_state, "total_work_minutes_today", 0)
             ELSE 0

(* hourly_activity[hour] = hourly_activity.get(hour, 0) + 1 *)
HourlyIncrement(hourly, hour) ==
    IF \E i \in 1..Len(hourly) : hourly[i][1] = hour
    THEN [i \in 1..Len(hourly) |->
            IF hourly[i][1] = hour THEN <<hour, hourly[i][2] + 1>> ELSE hourly[i]]
    ELSE Append(hourly, <<hour, 1>>)

(* The hourly bucketing of one loop iteration. *)
BucketHour(c, activity) ==
    LET dt == FromIsoformat(Get(activity, "timestamp", ""))
    IN  IF dt.ok
        THEN [c EXCEPT !.hourly_activity = HourlyIncrement(@, dt.hour)]
        ELSE c

(* The dispatch with break_types as an open map: a break type not yet a   *)
(* key becomes one.                                                        *)
CountEventOpenBreakTypes(c, activity) ==
    LET event_type == Get(activity, "event_type", "")
        event_data == Get(activity, "event_data", EmptyDict)
        break_type == Get(event_data, "break_type", "unknown")
    IN  IF event_type = "break_shown"
        THEN [c EXCEPT !.break_count = @ + 1,
                       !.break_types =
                           IF break_type \in DOMAIN @
                           THEN [@ EXCEPT ![break_type] = @ + 1]
                           ELSE @ @@ (break_type :> 1)]
        ELSE c

(* The dispatch with a completed break counted as a shown break as well. *)
CountEventCompletionShows(c, activity) ==
    LET event_type == Get(activity, "event_type", "")
    IN  CASE event_type = "break_shown" ->
               [c EXCEPT !.break_count = @ + 1]
          [] event_type = "break_completed" ->
               [c EXCEPT !.break_completed_count = @ + 1, !.break_count = @ + 1]
          [] event_type = "command_received" ->
               [c EXCEPT !.commands_used = @ + 1]
          [] event_type = "pause_toggled" ->
               [c EXCEPT !.pause_events = @ + 1]
          [] event_type = "break_rescheduled" ->
               [c EXCEPT !.reschedule_count = @ + 1]
          [] OTHER -> c

(* The dispatch with a completion counted only when a shown break is still *)
(* open, which makes the count depend on the order of the events.          *)
CountEventPaired(c, activity) ==
    LET event_type == Get(activity, "event_type", "")
    IN  CASE event_type = "break_shown" ->
               [c EXCEPT !.break_count = @ + 1]
          [] event_type = "break_completed" ->
               IF c.break_completed_count < c.break_count
               THEN [c EXCEPT !.break_completed_count = @ + 1]
               ELSE c
          [] OTHER -> c

(* The event_type dispatch of one loop iteration. *)
CountEvent(c, activity) ==
    LET event_type == Get(activity, "event_type", "")
        event_data == Get(activity, "event_data", EmptyDict)
    IN  CASE event_type = "break_shown" ->
               LET break_type == Get(event_data, "break_type", "unknown")
                   c1 == [c EXCEPT !.break_count = @ + 1]
               IN  IF break_type \in DOMAIN c.break_types
                   THEN [c1 EXCEPT !.break_types[break_type] = @ + 1]
                   ELSE c1
          [] event_type = "break_completed" ->
               [c EXCEPT !.break_completed_count = @ + 1]
          [] event_type = "session_started" ->
               IF Get(event_data, "session_type", "") = "deep_work"
               THEN [c EXCEPT !.deep_work_sessions = @ + 1]
               ELSE c
          [] event_type = "command_received" ->
               [c EXCEPT !.commands_used = @ + 1]
          [] event_type = "pause_toggled" ->
               [c EXCEPT !.pause_events = @ + 1]
          [] event_type = "break_rescheduled" ->
               [c EXCEPT !.reschedule_count = @ + 1]
          [] OTHER -> c

(* One loop iteration that gives up on an event whose timestamp does not   *)
(* parse, before its event_type is looked at.                              *)
ProcessActivitySkipUnparsed(c, activity) ==
    IF FromIsoformat(Get(activity, "timestamp", "")).ok
    THEN CountEvent(BucketHour(c, activity), activity)
    ELSE c

ProcessActivity(c, activity) == CountEvent(BucketHour(c, activity), activity)

RECURSIVE ProcessAll(_, _)
ProcessAll(c, activities) ==
    IF activities = <<>> THEN c
    ELSE ProcessAll(ProcessActivity(c, Head(activities)), Tail(activities))

(* RawCompliance with the factor 100 forgotten. *)
RawComplianceNoPercent(break_completed_count, break_count) ==
    IF break_count > 0
    THEN Frac(break_completed_count, break_count)
    ELSE FracOfInt(0)

(* break_compliance before rounding. *)
RawCompliance(break_completed_count, break_count) ==
    IF break_count > 0
    THEN Frac(break_completed_count * 100, break_count)
    ELSE FracOfInt(0)

(* An insight string: the rule that emits it and the values it interpolates. *)
Insight(rule, args) == [rule |-> rule, args |-> args]

LowComplianceInsight == Insight("low_break_compliance", <<>>)
HighComplianceInsight == Insight("excellent_break_compliance", <<>>)
DeepWorkInsight(n) == Insight("deep_work_sessions", <<n>>)
RescheduleInsight == Insight("frequent_rescheduling", <<>>)
PauseInsight == Insight("multiple_pause_resume", <<>>)
CommandsInsight == Insight("active_voice_commands", <<>>)
PeakHoursInsight(hours) == Insight("most_active_hours", hours)

(* Rules 1 and 2 as two independent ifs with the thresholds exchanged. *)
ComplianceInsightsIndependent(break_compliance) ==
    (IF FracLess(break_compliance, FracOfInt(90))
     THEN <<LowComplianceInsight>> ELSE <<>>)
    \o (IF FracLess(FracOfInt(50), break_compliance)
        THEN <<HighComplianceInsight>> ELSE <<>>)

(* Rules 1 and 2: if break_compliance < 50 ... elif break_compliance > 90 *)
ComplianceInsights(break_compliance) ==
    IF FracLess(break_compliance, FracOfInt(50)) THEN <<LowComplianceInsight>>
    ELSE IF FracLess(FracOfInt(90), break_compliance) THEN <<HighComplianceInsight>>
    ELSE <<>>

(* Rules 3 to 6 as one if/elif chain: only the first that holds fires. *)
CounterInsightsChained(c) ==
    IF c.deep_work_sessions > 0 THEN <<DeepWorkInsight(c.deep_work_sessions)>>
    ELSE IF 10 * c.reschedule_count > 3 * c.break_count THEN <<RescheduleInsight>>
    ELSE IF c.pause_events > 3 THEN <<PauseInsight>>
    ELSE IF c.commands_used > 5 THEN <<CommandsInsight>>
    ELSE <<>>

(* Rules 3 to 6: independent ifs. *)
CounterInsights(c) ==
    (IF c.deep_work_sessions > 0
     THEN <<DeepWorkInsight(c.deep_work_sessions)>> ELSE <<>>)
    \o (IF 10 * c.reschedule_count > 3 * c.break_count
        THEN <<RescheduleInsight>> ELSE <<>>)
    \o (IF c.pause_events > 3 THEN <<PauseInsight>> ELSE <<>>)
    \o (IF c.commands_used > 5 THEN <<CommandsInsight>> ELSE <<>>)

(* sorted(items, key=count, reverse=True): a stable sort, items of equal   *)
(* count keep their insertion order.                                       *)
RECURSIVE SortedByCountDesc(_)
SortedByCountDesc(items) ==
    IF items = <<>> THEN <<>>
    ELSE LET n == Len(items)
             init == SortedByCountDesc(SubSeq(items, 1, n - 1))
             x == items[n]
             k == Cardinality({i \in 1..Len(init) : init[i][2] >= x[2]})
         IN  SubSeq(init, 1, k) \o <<x>> \o SubSeq(init, k + 1, Len(init))

(* Rule 7: the three most active hours. *)
PeakHoursInsights(hourly) ==
    LET sorted == SortedByCountDesc(hourly)
        peak_hours == SubSeq(sorted, 1, Min2(3, Len(sorted)))
    IN  IF peak_hours # <<>>
        THEN <<PeakHoursInsight([i \in 1..Len(peak_hours) |-> peak_hours[i][1]])>>
        ELSE <<>>

analyze_daily_patterns(activities) ==
    IF activities = <<>> THEN EmptyAnalysis
    ELSE LET c == ProcessAll(InitCounters, activities)
             break_compliance ==
                 RawCompliance(c.break_completed_count, c.break_count)
         IN  [total_breaks |-> c.break_count,
              breaks_completed |-> c.break_completed_count,
              total_work_minutes |-> FinalWorkMinutes(activities),
              break_compliance |-> Round1(break_compliance),
              deep_work_sessions |-> c.deep_work_sessions,
              commands_used |-> c.commands_used,
              pause_events |-> c.pause_events,
              break_types |-> c.break_types,
              hourly_activity |-> c.hourly_activity,
              reschedule_count |-> c.reschedule_count,
              insights |-> ComplianceInsights(break_compliance)
                           \o CounterInsights(c)
                           \o PeakHoursInsights(c.hourly_activity)]

(***************************************************************************)
(* ActivityAnalyzer.generate_daily_summary.                                *)
(***************************************************************************)
TimestampKey(activity) == Get(activity, "timestamp", "")

(* min(activities, key=...): the first activity of least key. *)
MinByTimestamp(activities) ==
    LET i == CHOOSE i \in 1..Len(activities) :
                 /\ \A j \in 1..Len(activities) :
                        ~StrLess(TimestampKey(activities[j]), TimestampKey(activities[i]))
                 /\ \A j \in 1..(i - 1) :
                        StrLess(TimestampKey(activities[i]), TimestampKey(activities[j]))
    IN  activities[i]

(* max(activities, key=...): the first activity of greatest key. *)
MaxByTimestamp(activities) ==
    LET i == CHOOSE i \in 1..Len(activities) :
                 /\ \A j \in 1..Len(activities) :
                        ~StrLess(TimestampKey(activities[i]), TimestampKey(activities[j]))
                 /\ \A j \in 1..(i - 1) :
                        StrLess(TimestampKey(activities[j]), TimestampKey(activities[i]))
    IN  activities[i]

(* active_duration in hours; a KeyError or ValueError of either parse      *)
(* leaves 0.                                                               *)
ActiveDuration(activities) ==
    IF activities = <<>> THEN FracOfInt(0)
    ELSE LET first_activity == MinByTimestamp(activities)
             last_activity == MaxByTimestamp(activities)
         IN  IF ~HasKey(first_activity, "timestamp")
                \/ ~HasKey(last_activity, "timestamp")
             THEN FracOfInt(0)
             ELSE LET start_time == FromIsoformat(first_activity.timestamp)
                      end_time == FromIsoformat(last_activity.timestamp)
                  IN  IF start_time.ok /\ end_time.ok
                      THEN Frac((end_time.minute - start_time.minute) * 60, 3600)
                      ELSE FracOfInt(0)

Today == "2024-01-15"

(* generate_daily_summary(date) once the day's log is loaded; date is the  *)
(* day as date.strftime("%Y-%m-%d") prints it.  generated_at, the wall     *)
(* clock of the call, is left out.                                         *)
DailySummaryOf(date, activities) ==
    [date |-> date,
     total_activities |-> Len(activities),
     active_duration_hours |-> Round1(ActiveDuration(activities)),
     analysis |-> analyze_daily_patterns(activities),
     raw_activities |-> activities]

(* The summary of the current day. *)
generate_daily_summary(activities) == DailySummaryOf(Today, activities)

(***************************************************************************)
(* Outcome of a call: the value it returns or the exception it raises.     *)
(***************************************************************************)
Returned(v) == [raised |-> "none", value |-> v]
Raised(e) == [raised |-> e, value |-> EmptyDict]

(***************************************************************************)
(* ActivityAnalyzer.prepare_ai_summary_data.                               *)
(***************************************************************************)
BreakTypeOrder == <<"eye_care", "custom_message">>

(* max(break_types.items(), key=count)[0] if break_types else "none":      *)
(* the first key, in the dict's order, of greatest count.                  *)
PreferredBreakType(break_types) ==
    IF DOMAIN break_types = {} THEN "none"
    ELSE LET keys == SelectSeq(BreakTypeOrder, LAMBDA k : k \in DOMAIN break_types)
             i == CHOOSE i \in 1..Len(keys) :
                      /\ \A j \in 1..Len(keys) : break_types[keys[j]] <= break_types[keys[i]]
                      /\ \A j \in 1..(i - 1) : break_types[keys[j]] < break_types[keys[i]]
         IN  keys[i]

RecommendationsNeeded ==
    <<"break_frequency", "work_session_optimization", "eye_health_habits",
      "productivity_improvements">>

(* prepare_ai_summary_data(date) once the day's log is loaded. *)
AiSummaryDataOf(date, activities) ==
    LET summary == DailySummaryOf(date, activities)
        analysis == summary.analysis
    IN  IF ~HasKey(analysis, "breaks_completed") \/ ~HasKey(analysis, "reschedule_count")
        THEN Raised("KeyError")
        ELSE Returned(
            [date |-> summary.date,
             productivity_metrics |->
                [total_work_minutes |-> analysis.total_work_minutes,
                 break_compliance_rate |-> analysis.break_compliance,
                 deep_work_sessions |-> analysis.deep_work_sessions,
                 total_breaks_taken |-> analysis.breaks_completed,
                 total_breaks_suggested |-> analysis.total_breaks],
             behavior_patterns |->
                [commands_used |-> analysis.commands_used,
                 pause_resume_events |-> analysis.pause_events,
                 break_reschedules |-> analysis.reschedule_count,
                 preferred_break_type |-> PreferredBreakType(analysis.break_types),
                 peak_activity_hours |->
                    [i \in 1..Len(analysis.hourly_activity) |->
                        analysis.hourly_activity[i][1]]],
             insights |-> analysis.insights,
             recommendations_needed |-> RecommendationsNeeded])

(* The AI-facing document of the current day. *)
prepare_ai_summary_data(activities) == AiSummaryDataOf(Today, activities)

(***************************************************************************)
(* RestlyDashboard.get_dashboard_data.                                     *)
(***************************************************************************)
WorkGoalMinutes == 480
FocusGoalSessions == 4

(* Scores before rounding, as the code computes them. *)
WorkScore(work_minutes) ==
    FracMin(FracOfInt(100), FracMulInt(Frac(work_minutes, WorkGoalMinutes), 100))

BreakScore(break_compliance) == FracOfTenths(break_compliance)

(* focus_score without the cap at 100. *)
FocusScoreUnclamped(deep_work_sessions) == FracOfInt(deep_work_sessions * 25)

FocusScore(deep_work_sessions) == FracOfInt(Min2(100, deep_work_sessions * 25))

OverallScore(work_score, break_score, focus_score) ==
    FracDivInt(FracAdd(FracAdd(work_score, break_score), focus_score), 3)

(* What the summarizer subprocess can do, and the ai_summary it leaves. *)
SummarizerOutcomes == {"ok", "nonzero_exit", "exception", "script_absent"}

AiStdout == "summary text"
AiError == "Error generating AI summary"

AiSummary(outcome) ==
    CASE outcome = "ok" -> AiStdout
      [] outcome = "exception" -> AiError
      [] OTHER -> ""

SampleHours == << <<9, 3>>, <<10, 5>>, <<11, 4>>, <<14, 2>>, <<15, 4>>, <<16, 3>> >>

RECURSIVE SumCounts(_)
SumCounts(hourly) ==
    IF hourly = <<>> THEN 0 ELSE hourly[1][2] + SumCounts(Tail(hourly))

(* hourly_activity.get(hour, 0) *)
HourlyGet(hourly, hour) ==
    IF \E i \in 1..Len(hourly) : hourly[i][1] = hour
    THEN hourly[CHOOSE i \in 1..Len(hourly) : hourly[i][1] = hour][2]
    ELSE 0

(* The 24 chart entries; entry i is hour i - 1.  The label, a rendering of *)
(* the hour, is left out.                                                  *)
HourlyData(analysis) ==
    LET from_analysis == Get(analysis, "hourly_activity", <<>>)
        hourly_activity ==
            IF from_analysis = <<>> \/ SumCounts(from_analysis) = 0
            THEN SampleHours ELSE from_analysis
    IN  [i \in 1..24 |->
            [hour |-> i - 1, activity_count |-> HourlyGet(hourly_activity, i - 1)]]

(* The breaks ring with the goal taken as it comes, without max(1, .). *)
BreaksRingRawGoal(analysis, break_score) ==
    [current |-> Get(analysis, "breaks_completed", 0),
     goal |-> Get(analysis, "total_breaks", 1),
     percentage |-> Round1(break_score)]

(* The breaks ring of the document, colour left out. *)
BreaksRing(analysis, break_score) ==
    [current |-> Get(analysis, "breaks_completed", 0),
     goal |-> Max2(1, Get(analysis, "total_breaks", 1)),
     percentage |-> Round1(break_score)]

(* get_dashboard_data(date) once the day's log is loaded: the scores and  *)
(* rings of the document, colours left out.                                *)
DashboardDataOf(date, activities, outcome) ==
    LET analysis == analyze_daily_patterns(activities)
        work_minutes == Get(analysis, "total_work_minutes", 0)
        break_compliance == Get(analysis, "break_compliance", 0)
        deep_work_sessions == Get(analysis, "deep_work_sessions", 0)
        work_score == WorkScore(work_minutes)
        break_score == BreakScore(break_compliance)
        focus_score == FocusScore(deep_work_sessions)
        overall_score == OverallScore(work_score, break_score, focus_score)
    IN  [date |-> date,
         metrics |->
            [work_minutes |-> work_minutes,
             work_hours |-> Round1(Frac(work_minutes, 60)),
             break_compliance |-> Round1(FracOfTenths(break_compliance)),
             deep_work_sessions |-> deep_work_sessions,
             total_breaks |-> Get(analysis, "total_breaks", 0),
             breaks_completed |-> Get(analysis, "breaks_completed", 0),
             commands_used |-> Get(analysis, "commands_used", 0),
             pause_events |-> Get(analysis, "pause_events", 0)],
         scores |->
            [work_score |-> Round1(work_score),
             break_score |-> Round1(break_score),
             focus_score |-> Round1(focus_score),
             overall_score |-> Round1(overall_score)],
         rings |->
            [work |-> [current |-> work_minutes, goal |-> WorkGoalMinutes,
                       percentage |-> Round1(work_score)],
             breaks |-> BreaksRing(analysis, break_score),
             focus |-> [current |-> deep_work_sessions, goal |-> FocusGoalSessions,
                        percentage |-> Round1(focus_score)]],
         hourly_activity |-> HourlyData(analysis),
         insights |-> Get(analysis, "insights", <<>>),
         ai_summary |-> AiSummary(outcome),
         break_types |-> Get(analysis, "break_types", EmptyDict),
         behavior_patterns |->
            [commands_used |-> Get(analysis, "commands_used", 0),
             pause_resume_events |-> Get(analysis, "pause_events", 0),
             break_reschedules |-> Get(analysis, "reschedule_count", 0),
             preferred_break_type |->
                PreferredBreakType(Get(analysis, "break_types", EmptyDict))]]

(* The presentation document of the current day. *)
get_dashboard_data(activities, outcome) ==
    DashboardDataOf(Today, activities, outcome)

(* get_dashboard_data without the except clause around the summarizer:   *)
(* what the subprocess call raises reaches the caller.                     *)
DashboardCallUncaught(activities, outcome) ==
    IF outcome = "exception" THEN Raised("Exception")
    ELSE Returned(get_dashboard_data(activities, outcome))

(* How a call of get_dashboard_data ends: the except clause holds back     *)
(* whatever the summarizer call raises, so the document is returned.       *)
DashboardCall(activities, outcome) ==
    Returned(get_dashboard_data(activities, outcome))

(* The unrounded scores get_dashboard_data holds in its local variables. *)
DashboardScores(activities) ==
    LET analysis == analyze_daily_patterns(activities)
        work_score == WorkScore(Get(analysis, "total_work_minutes", 0))
        break_score == BreakScore(Get(analysis, "break_compliance", 0))
        focus_score == FocusScore(Get(analysis, "deep_work_sessions", 0))
    IN  [work_score |-> work_score, break_score |-> break_score,
         focus_score |-> focus_score,
         overall_score |-> OverallScore(work_score, break_score, focus_score)]

(***************************************************************************)
(* Dates.  A day is its distance in days before the current day: 0 is the  *)
(* day datetime.now() gives, 1 the day before, -1 the day after.           *)
(***************************************************************************)
MaxDays == 3

Tomorrow == "2024-01-16"
PastDates ==
    <<"2024-01-14", "2024-01-13", "2024-01-12", "2024-01-11", "2024-01-10",
      "2024-01-09">>
Yesterday == PastDates[1]

(* date.strftime("%Y-%m-%d") *)
Strftime(day) ==
    IF day = 0 THEN Today ELSE IF day < 0 THEN Tomorrow ELSE PastDates[day]

(* The date arguments a request can carry: none, a date in YYYY-MM-DD      *)
(* format, text in another format.                                         *)
NoDateArg == ""
InvalidDate == "15/01/2024"
DateArgs == {NoDateArg, Today, Yesterday, InvalidDate}

(* datetime.strptime(date_str, "%Y-%m-%d"); ok is FALSE for a ValueError. *)
Strptime(date_str) ==
    CASE date_str = Today     -> [ok |-> TRUE, day |-> 0]
      [] date_str = Yesterday -> [ok |-> TRUE, day |-> 1]
      [] OTHER                -> [ok |-> FALSE, day |-> 0]

(* A day without a log file. *)
MissingLog == [exists |-> FALSE, lines |-> <<>>]

(* The activities a call loads for a day; logs gives each day's file. *)
ActivitiesOn(day, logs) ==
    load_daily_activities(logs[day].exists, logs[day].lines, NoFail)

(***************************************************************************)
(* main of daily_summary.py.  What it leaves: status, "ok" for return 0,   *)
(* "input_error" for the invalid-date message and return 1, "crashed" for  *)
(* an exception that leaves main; the document printed; the days whose log *)
(* was loaded, in the order of the loads.                                  *)
(***************************************************************************)
Rejected ==
    [status |-> "input_error", raised |-> "none", value |-> EmptyDict,
     days_loaded |-> <<>>]

(* One pass of the loop over range(args.days). *)
SummaryOfDay(ai_format, day, logs) ==
    IF ai_format
    THEN AiSummaryDataOf(Strftime(day), ActivitiesOn(day, logs))
    ELSE Returned(DailySummaryOf(Strftime(day), ActivitiesOn(day, logs)))

(* current_date = target_date - timedelta(days=i) *)
CurrentDate(target_date, i) == target_date + i

(* The statements after the loop, or the exception that left the loop;    *)
(* outcomes are the loop's passes in order.                                *)
MainOutput(target_date, days, outcomes) ==
    IF \E n \in 1..days : outcomes[n].raised # "none"
    THEN LET first == CHOOSE n \in 1..days :
                          /\ outcomes[n].raised # "none"
                          /\ \A m \in 1..(n - 1) : outcomes[m].raised = "none"
         IN  [status |-> "crashed", raised |-> outcomes[first].raised,
              value |-> EmptyDict,
              days_loaded |-> [n \in 1..first |-> CurrentDate(target_date, n - 1)]]
    ELSE [status |-> "ok", raised |-> "none",
          value |->
              IF days = 1 THEN outcomes[1].value
              ELSE [multi_day_summary |-> TRUE,
                    date_range |->
                        [from |-> Strftime(target_date + (days - 1)),
                         to |-> Strftime(target_date)],
                    days |-> [n \in 1..days |-> outcomes[n].value]],
          days_loaded |-> [n \in 1..days |-> CurrentDate(target_date, n - 1)]]

(* The target date: the argument parsed, the current day without one. *)
TargetDate(date_arg) ==
    IF date_arg # NoDateArg THEN Strptime(date_arg) ELSE [ok |-> TRUE, day |-> 0]

daily_summary_main(date_arg, days, ai_format, logs) ==
    IF ~TargetDate(date_arg).ok THEN Rejected
    ELSE MainOutput(TargetDate(date_arg).day, days,
                    [n \in 1..days |->
                        SummaryOfDay(ai_format,
                                     CurrentDate(TargetDate(date_arg).day, n - 1),
                                     logs)])

(***************************************************************************)
(* main of ai_summary.py, without --setup and --output.  provider is what  *)
(* the provider call does: "ok" or "error" (any exception it raises).      *)
(* Status "failed" is the return 1 of the except clause.                   *)
(***************************************************************************)
ProviderOutcomes == {"ok", "error"}

(* What main prints and returns once the activity data was prepared, or   *)
(* failed to be, and the provider was called.                              *)
AiMainOutput(target_date, prepared, provider) ==
    IF prepared /\ provider = "ok"
    THEN [status |-> "ok", raised |-> "none", value |-> AiStdout,
          days_loaded |-> <<target_date>>]
    ELSE [status |-> "failed", raised |-> "none", value |-> "",
          days_loaded |-> <<target_date>>]

ai_summary_main(date_arg, provider, logs) ==
    IF ~TargetDate(date_arg).ok THEN Rejected
    ELSE AiMainOutput(
             TargetDate(date_arg).day,
             AiSummaryDataOf(Strftime(TargetDate(date_arg).day),
                             ActivitiesOn(TargetDate(date_arg).day, logs)).raised = "none",
             provider)

(***************************************************************************)
(* The handlers of /api/data and /api/summary.  A date that strptime       *)
(* rejects is replaced by datetime.now().                                  *)
(***************************************************************************)
HandlerDate(date_str) ==
    IF date_str # NoDateArg /\ Strptime(date_str).ok
    THEN Strptime(date_str).day ELSE 0

api_data_handler(date_str, outcome, logs) ==
    LET date == HandlerDate(date_str)
    IN  [status |-> "ok", raised |-> "none",
         value |-> DashboardDataOf(Strftime(date), ActivitiesOn(date, logs), outcome),
         days_loaded |-> <<date>>]

AiStderr == "stderr text"

(* The handler loads nothing itself: days_loaded is the day it hands to    *)
(* the summarizer subprocess, which loads that day's log.  The handler     *)
(* does not look for the script: without it the interpreter exits with a   *)
(* non-zero status.                                                        *)
api_summary_handler(date_str, outcome, logs) ==
    LET date == HandlerDate(date_str)
    IN  [status |-> "ok", raised |-> "none",
         value |-> CASE outcome = "ok" -> [summary |-> AiStdout]
                     [] outcome = "exception" -> [error |-> AiError]
                     [] OTHER -> [error |-> AiStderr],
         days_loaded |-> <<date>>]

(***************************************************************************)
(* State.  logExists and log are the day's log file; result is the call    *)
(* made by the step that led to the state: the operation, the file as the  *)
(* call found it, the activities it loaded, what it returned or raised and *)
(* what the summarizer subprocess did, if the call ran one.  A step of the *)
(* producer leaves no call behind.                                         *)
(***************************************************************************)
VARIABLES logExists, log, archive, customLog, dashboard, result

vars == <<logExists, log, archive, customLog, dashboard, result>>

(* logExists and log are the current day's log under the default config    *)
(* root, ~/.config/restly; customLog is that day's log under a custom      *)
(* config root.  dashboard is the RestlyDashboard object: the config root  *)
(* it was started with and, while a get_dashboard_data call is between its *)
(* own read of the log and the summarizer subprocess, the activities it    *)
(* loaded.                                                                 *)
ConfigRoots == {"default", "custom"}

IdleDashboard(config_dir) ==
    [pc |-> "idle", config_dir |-> config_dir, activities |-> <<>>]

(* The days before the current one that a request can reach, and what the  *)
(* log of such a day can be: no file, or the file of a day of one event.   *)
ArchiveDays == 1..(MaxDays + 1)
ArchivedLog == [exists |-> TRUE, lines |-> <<JsonLine(EvShownNoTimestamp)>>]

(* The archives considered: no earlier day has a log, every earlier day    *)
(* has one, only the day before has one.                                   *)
Archives ==
    { [day \in ArchiveDays |-> MissingLog],
      [day \in ArchiveDays |-> ArchivedLog],
      [day \in ArchiveDays |-> IF day = 1 THEN ArchivedLog ELSE MissingLog] }

(* The log file of each day, as get_log_file_path finds it. *)
Logs ==
    [day \in (0 - MaxDays - 1)..(MaxDays + 1) |->
        IF day = 0 THEN [exists |-> logExists, lines |-> log]
        ELSE IF day \in ArchiveDays THEN archive[day]
        ELSE MissingLog]

NoCall ==
    [op |-> "none", exists |-> FALSE, lines |-> <<>>, failAt |-> NoFail,
     activities |-> <<>>, raised |-> "none", value |-> EmptyDict,
     locals |-> EmptyDict, summarizer |-> "none", request |-> EmptyDict,
     status |-> "none", days_loaded |-> <<>>, summary_of |-> <<>>]

Call(op, failAt, outcome, locals) ==
    [op |-> op, exists |-> logExists, lines |-> log, failAt |-> failAt,
     activities |-> load_daily_activities(logExists, log, failAt),
     raised |-> outcome.raised, value |-> outcome.value, locals |-> locals,
     summarizer |-> "none", request |-> EmptyDict, status |-> "none",
     days_loaded |-> <<0>>, summary_of |-> <<>>]

(* A request at a boundary: the arguments it carried and what it left. *)
Request(op, request, summarizer, outcome) ==
    [op |-> op, exists |-> logExists, lines |-> log, failAt |-> NoFail,
     activities |-> IF outcome.days_loaded = <<0>>
                    THEN load_daily_activities(logExists, log, NoFail) ELSE <<>>,
     raised |-> outcome.raised, value |-> outcome.value, locals |-> EmptyDict,
     summarizer |-> summarizer, request |-> request, status |-> outcome.status,
     days_loaded |-> outcome.days_loaded, summary_of |-> <<>>]

(* Where an IOError can end the read of the file as it is now. *)
FailPoints == IF logExists THEN {NoFail} \cup (0..Len(log)) ELSE {NoFail}

Init ==
    /\ logExists \in BOOLEAN
    /\ log = <<>>
    /\ archive = [day \in ArchiveDays |-> MissingLog]
    /\ customLog = MissingLog
    /\ dashboard = IdleDashboard("default")
    /\ result = NoCall

(* The producer appends a line, creating the file if need be. *)
ProducerAppend(line) ==
    /\ logExists' = TRUE
    /\ log' = Append(log, line)
    /\ result' = NoCall
    /\ UNCHANGED <<archive, customLog, dashboard>>

LoadDailyActivities(failAt) ==
    /\ failAt \in FailPoints
    /\ result' = Call("load_daily_activities", failAt,
                      Returned(load_daily_activities(logExists, log, failAt)),
                      EmptyDict)
    /\ UNCHANGED <<logExists, log, archive, customLog, dashboard>>

GenerateDailySummary(failAt) ==
    /\ failAt \in FailPoints
    /\ result' = Call("generate_daily_summary", failAt,
                      Returned(generate_daily_summary(
                          load_daily_activities(logExists, log, failAt))),
                      EmptyDict)
    /\ UNCHANGED <<logExists, log, archive, customLog, dashboard>>

PrepareAiSummaryData(failAt) ==
    /\ failAt \in FailPoints
    /\ result' = Call("prepare_ai_summary_data", failAt,
                      prepare_ai_summary_data(
                          load_daily_activities(logExists, log, failAt)),
                      EmptyDict)
    /\ UNCHANGED <<logExists, log, archive, customLog, dashboard>>

(* The outcomes open to the summarizer subprocess on the activities it    *)
(* loads: it exits with status 0 only if prepare_ai_summary_data returns.  *)
SummarizerCan(outcome, activities) ==
    outcome = "ok" => AiSummaryDataOf(Today, activities).raised = "none"

(* The call while no other process touches the log: the subprocess reads   *)
(* the file the dashboard has read.                                        *)
GetDashboardData(failAt, outcome) ==
    /\ failAt \in FailPoints
    /\ dashboard = IdleDashboard("default")
    /\ SummarizerCan(outcome, load_daily_activities(logExists, log, NoFail))
    /\ LET activities == load_daily_activities(logExists, log, failAt)
       IN  result' = [Call("get_dashboard_data", failAt,
                           DashboardCall(activities, outcome),
                           DashboardScores(activities))
                         EXCEPT !.summarizer = outcome,
                                !.summary_of =
                                    IF outcome \in {"ok", "nonzero_exit"}
                                    THEN load_daily_activities(logExists, log, NoFail)
                                    ELSE <<>>]
    /\ UNCHANGED <<logExists, log, archive, customLog, dashboard>>

DailySummaryMain(date_arg, days, ai_format) ==
    /\ \E outcome \in {daily_summary_main(date_arg, days, ai_format, Logs)} :
           result' = Request("daily_summary_main",
                             [date |-> date_arg, days |-> days,
                              ai_format |-> ai_format],
                             "none", outcome)
    /\ UNCHANGED <<logExists, log, archive, customLog, dashboard>>

AiSummaryMain(date_arg, provider) ==
    /\ \E outcome \in {ai_summary_main(date_arg, provider, Logs)} :
           result' = Request("ai_summary_main", [date |-> date_arg], provider,
                             outcome)
    /\ UNCHANGED <<logExists, log, archive, customLog, dashboard>>

ApiDataHandler(date_str, outcome) ==
    /\ \E response \in {api_data_handler(date_str, outcome, Logs)} :
           result' = Request("api_data_handler", [date |-> date_str], outcome,
                             response)
    /\ UNCHANGED <<logExists, log, archive, customLog, dashboard>>

ApiSummaryHandler(date_str, outcome) ==
    /\ \E response \in {api_summary_handler(date_str, outcome, Logs)} :
           result' = Request("api_summary_handler", [date |-> date_str], outcome,
                             response)
    /\ UNCHANGED <<logExists, log, archive, customLog, dashboard>>

(* Every read of the log reaches the end of the file. *)
Next ==
    \/ \E line \in LogLines : Len(log) < MaxLen /\ ProducerAppend(line)
    \/ LoadDailyActivities(NoFail)
    \/ GenerateDailySummary(NoFail)
    \/ PrepareAiSummaryData(NoFail)
    \/ \E outcome \in SummarizerOutcomes : GetDashboardData(NoFail, outcome)

Spec == Init /\ [][Next]_vars

(* Days of few event kinds and many events, seen through the dashboard. *)
NextScores ==
    \/ \E line \in ScoreLines : Len(log) < MaxScoreLen /\ ProducerAppend(line)
    \/ GenerateDailySummary(NoFail)
    \/ \E outcome \in SummarizerOutcomes : GetDashboardData(NoFail, outcome)

SpecScores == Init /\ [][NextScores]_vars

(* Reads that an IOError may end after any number of lines. *)
NextIO ==
    \/ \E line \in IoLines : Len(log) < MaxLen /\ ProducerAppend(line)
    \/ \E failAt \in {NoFail} \cup (0..MaxLen) : LoadDailyActivities(failAt)
    \/ \E failAt \in {NoFail} \cup (0..MaxLen) : GenerateDailySummary(failAt)
    \/ \E failAt \in {NoFail} \cup (0..MaxLen) : PrepareAiSummaryData(failAt)
    \/ \E failAt \in {NoFail} \cup (0..MaxLen), outcome \in SummarizerOutcomes :
           GetDashboardData(failAt, outcome)

SpecIO == Init /\ [][NextIO]_vars

(* Requests at the boundaries, over the logs of several days. *)
MaxRequestLen == 2

RequestLines == { JsonLine(EvShownEyeCare), JsonLine(EvCompleted) }

InitRequests ==
    /\ logExists \in BOOLEAN
    /\ log = <<>>
    /\ archive \in Archives
    /\ customLog = MissingLog
    /\ dashboard = IdleDashboard("default")
    /\ result = NoCall

NextRequests ==
    \/ \E line \in RequestLines : Len(log) < MaxRequestLen /\ ProducerAppend(line)
    \/ \E date_arg \in DateArgs, days \in 0..MaxDays, ai_format \in BOOLEAN :
           DailySummaryMain(date_arg, days, ai_format)
    \/ \E date_arg \in DateArgs, provider \in ProviderOutcomes :
           AiSummaryMain(date_arg, provider)
    \/ \E date_str \in DateArgs, outcome \in SummarizerOutcomes :
           ApiDataHandler(date_str, outcome)
    \/ \E date_str \in DateArgs, outcome \in SummarizerOutcomes :
           ApiSummaryHandler(date_str, outcome)

SpecRequests == InitRequests /\ [][NextRequests]_vars

(***************************************************************************)
(* Busy days: the day starts from a morning of eight events already        *)
(* logged, chosen so that the pause and command counts stand just at their *)
(* thresholds or at zero, and the producer appends a few more.             *)
(***************************************************************************)
MaxInsightAppends == 4

RECURSIVE Repeat(_, _)
Repeat(line, n) == IF n = 0 THEN <<>> ELSE <<line>> \o Repeat(line, n - 1)

BusyMorning ==
    Repeat(JsonLine(EvPauseToggled), 3) \o Repeat(JsonLine(EvCommandBadTimestamp), 5)

Mornings ==
    { BusyMorning,
      Repeat(JsonLine(EvPauseToggled), 3) \o Repeat(JsonLine(EvUnknownType), 5),
      Repeat(JsonLine(EvUnknownType), 3) \o Repeat(JsonLine(EvCommandBadTimestamp), 5),
      Repeat(JsonLine(EvUnknownType), Len(BusyMorning)) }

InsightLines ==
    { JsonLine(EvPauseToggled), JsonLine(EvCommandBadTimestamp),
      JsonLine(EvDeepWork), JsonLine(EvRescheduled), JsonLine(EvShownEyeCare) }

InitInsights ==
    /\ logExists = TRUE
    /\ log \in Mornings
    /\ archive = [day \in ArchiveDays |-> MissingLog]
    /\ customLog = MissingLog
    /\ dashboard = IdleDashboard("default")
    /\ result = NoCall

NextInsights ==
    \/ \E line \in InsightLines :
           Len(log) < Len(BusyMorning) + MaxInsightAppends /\ ProducerAppend(line)
    \/ GenerateDailySummary(NoFail)

SpecInsights == InitInsights /\ [][NextInsights]_vars

(***************************************************************************)
(* get_dashboard_data beside a running producer.  The call reads the log   *)
(* of the dashboard's config root, then starts ai_summary.py with --date   *)
(* alone; the subprocess builds ActivityAnalyzer(None) and reads the log   *)
(* of the default config root as it is by then.  The producer, a process   *)
(* of its own, may append in between.                                      *)
(***************************************************************************)
MaxConcurrentLen == 2

ConcurrentLines == { JsonLine(EvShownEyeCare), JsonLine(EvCompleted) }

(* The current day's log under a config root. *)
RootLog(config_dir) ==
    IF config_dir = "default" THEN [exists |-> logExists, lines |-> log]
    ELSE customLog

(* A producer started with the custom config root appends a line. *)
ProducerAppendCustom(line) ==
    /\ customLog' = [exists |-> TRUE, lines |-> Append(customLog.lines, line)]
    /\ result' = NoCall
    /\ UNCHANGED <<logExists, log, archive, dashboard>>

(* The call's own read of the log. *)
BeginDashboardData ==
    /\ dashboard.pc = "idle"
    /\ dashboard' =
           [dashboard EXCEPT
               !.pc = "loaded",
               !.activities =
                   load_daily_activities(RootLog(dashboard.config_dir).exists,
                                         RootLog(dashboard.config_dir).lines,
                                         NoFail)]
    /\ result' = NoCall
    /\ UNCHANGED <<logExists, log, archive, customLog>>

(* The summarizer subprocess runs and reads, and the document is returned. *)
FinishDashboardData(outcome) ==
    /\ dashboard.pc = "loaded"
    /\ SummarizerCan(outcome, load_daily_activities(logExists, log, NoFail))
    /\ result' =
           [Call("get_dashboard_data", NoFail,
                 DashboardCall(dashboard.activities, outcome),
                 DashboardScores(dashboard.activities))
               EXCEPT !.exists = RootLog(dashboard.config_dir).exists,
                      !.lines = RootLog(dashboard.config_dir).lines,
                      !.activities = dashboard.activities,
                      !.summarizer = outcome,
                      !.summary_of =
                          IF outcome \in {"ok", "nonzero_exit"}
                          THEN load_daily_activities(logExists, log, NoFail)
                          ELSE <<>>]
    /\ dashboard' = IdleDashboard(dashboard.config_dir)
    /\ UNCHANGED <<logExists, log, archive, customLog>>

InitConcurrent ==
    /\ logExists \in BOOLEAN
    /\ log = <<>>
    /\ archive = [day \in ArchiveDays |-> MissingLog]
    /\ customLog = MissingLog
    /\ dashboard \in {IdleDashboard(config_dir) : config_dir \in ConfigRoots}
    /\ result = NoCall

NextConcurrent ==
    \/ \E line \in ConcurrentLines :
           Len(log) < MaxConcurrentLen /\ ProducerAppend(line)
    \/ \E line \in ConcurrentLines :
           Len(customLog.lines) < MaxConcurrentLen /\ ProducerAppendCustom(line)
    \/ BeginDashboardData
    \/ \E outcome \in SummarizerOutcomes : FinishDashboardData(outcome)

SpecConcurrent == InitConcurrent /\ [][NextConcurrent]_vars

(***************************************************************************)
(* Properties.  The counts and timestamps they speak of are taken from the *)
(* loaded activities directly, not from the reducer.                       *)
(***************************************************************************)
EventTypeOf(activity) == IF "event_type" \in DOMAIN activity THEN activity.event_type ELSE ""

CountOfType(activities, event_type) ==
    Cardinality({i \in 1..Len(activities) : EventTypeOf(activities[i]) = event_type})

ShownIn(activities) == CountOfType(activities, "break_shown")

CompletedIn(activities) == CountOfType(activities, "break_completed")

Abs(n) == IF n < 0 THEN -n ELSE n

(* tenths is num/den rounded to one decimal: a tenth nearest to num/den. *)
IsRounded1(tenths, num, den) == 2 * Abs(tenths * den - 10 * num) <= den

Summarised == result.op = "generate_daily_summary"
Projected == result.op = "prepare_ai_summary_data"
Dashboarded == result.op = "get_dashboard_data"

EmptyDay == ~result.exists \/ result.lines = <<>>

CounterKeys ==
    {"total_breaks", "breaks_completed", "total_work_minutes", "break_compliance",
     "deep_work_sessions", "commands_used", "pause_events", "reschedule_count"}

(* C1: on a day whose log is missing or has no events, load returns the   *)
(* empty sequence and both generate_daily_summary and                      *)
(* prepare_ai_summary_data complete without raising, with                  *)
(* total_activities = 0, active_duration_hours = 0 and every metric zero.  *)
C1_EmptyDayCompletes ==
    ((Summarised \/ Projected) /\ EmptyDay) =>
        /\ result.activities = <<>>
        /\ result.raised = "none"
        /\ Summarised =>
             /\ result.value.total_activities = 0
             /\ result.value.active_duration_hours = 0
             /\ result.value.analysis.total_breaks = 0
             /\ result.value.analysis.total_work_minutes = 0
             /\ result.value.analysis.break_compliance = 0
             /\ result.value.analysis.insights = <<>>
        /\ Projected =>
             /\ \A k \in DOMAIN result.value.productivity_metrics :
                    result.value.productivity_metrics[k] = 0
             /\ result.value.behavior_patterns.commands_used = 0
             /\ result.value.behavior_patterns.peak_activity_hours = <<>>
             /\ result.value.insights = <<>>

(* C2: analyze_daily_patterns on the empty sequence returns an analysis in *)
(* which every counter of the data model is present with value zero,       *)
(* break_types and hourly_activity are empty and insights is empty.        *)
C2_EmptyAnalysisHasEveryCounter ==
    (Summarised /\ result.activities = <<>>) =>
        LET analysis == result.value.analysis
        IN  /\ \A k \in CounterKeys : k \in DOMAIN analysis /\ analysis[k] = 0
            /\ DOMAIN analysis.break_types = {}
            /\ analysis.hourly_activity = <<>>
            /\ analysis.insights = <<>>

(* C3: when the break_completed events do not outnumber the break_shown   *)
(* events, the reported break_compliance is 100*completed/total rounded to *)
(* one decimal if total > 0, and 0 if total = 0.                           *)
C3_BreakComplianceIsRoundedRatio ==
    Summarised =>
        LET total == ShownIn(result.activities)
            completed == CompletedIn(result.activities)
            reported == result.value.analysis.break_compliance
        IN  completed <= total =>
                IF total > 0
                THEN IsRounded1(reported, 100 * completed, total)
                ELSE reported = 0

(* A day of three breaks shown and one completed reports 33.3. *)
C3_Witness ==
    /\ Summarised
    /\ ShownIn(result.activities) = 3
    /\ CompletedIn(result.activities) = 1
    /\ result.value.analysis.break_compliance = 333

(* C4: the break_compliance of every analysis lies in [0,100], also when   *)
(* break_completed events outnumber break_shown events.                    *)
C4_BreakComplianceInRange ==
    Summarised =>
        /\ result.value.analysis.break_compliance >= 0
        /\ result.value.analysis.break_compliance <= 1000

(* C5: each of work_score, break_score, focus_score and overall_score of   *)
(* the dashboard document lies in [0,100].                                 *)
C5_ScoresInRange ==
    Dashboarded =>
        \A k \in {"work_score", "break_score", "focus_score", "overall_score"} :
            result.value.scores[k] >= 0 /\ result.value.scores[k] <= 1000

HasInsight(insights, rule) == \E i \in 1..Len(insights) : insights[i].rule = rule

(* C6: insights never holds both the low-compliance warning and the        *)
(* high-compliance praise.                                                 *)
C6_ComplianceInsightsExclusive ==
    Summarised =>
        ~(/\ HasInsight(result.value.analysis.insights, "low_break_compliance")
          /\ HasInsight(result.value.analysis.insights, "excellent_break_compliance"))

(* Every break shown was completed: the praise alone. *)
C6_Witness ==
    /\ Summarised
    /\ ShownIn(result.activities) = 1
    /\ CompletedIn(result.activities) = 1
    /\ HasInsight(result.value.analysis.insights, "excellent_break_compliance")
    /\ ~HasInsight(result.value.analysis.insights, "low_break_compliance")

CarriesWorkMinutes(activity) ==
    /\ "system_state" \in DOMAIN activity
    /\ "total_work_minutes_today" \in DOMAIN activity.system_state

(* C7: total_work_minutes is the system_state.total_work_minutes_today of  *)
(* the last event in input order when that event carries it and 0          *)
(* otherwise, whatever earlier events carry.                               *)
C7_WorkMinutesFromLastEvent ==
    Summarised =>
        LET activities == result.activities
            reported == result.value.analysis.total_work_minutes
        IN  IF activities # <<>> /\ CarriesWorkMinutes(activities[Len(activities)])
            THEN reported = activities[Len(activities)].system_state.total_work_minutes_today
            ELSE reported = 0

(* An earlier event carries 50 minutes, the last event carries none: 0. *)
C7_Witness ==
    /\ Summarised
    /\ Len(result.activities) >= 2
    /\ CarriesWorkMinutes(result.activities[1])
    /\ ~CarriesWorkMinutes(result.activities[Len(result.activities)])
    /\ result.value.analysis.total_work_minutes = 0

(* C8: work_score = min(100, 100*work_minutes/480), break_score =          *)
(* break_compliance, focus_score = min(100, 25*deep_work_sessions),        *)
(* overall_score is the unweighted mean of the three; the document         *)
(* publishes each rounded to one decimal.                                  *)
C8_ScoreFormulas ==
    Dashboarded =>
        LET m == result.value.metrics
            sc == result.locals
            work == Frac(100 * m.work_minutes, 480)
            focus == FracOfInt(25 * m.deep_work_sessions)
            hundred == FracOfInt(100)
        IN  /\ IF FracLess(hundred, work) THEN FracEq(sc.work_score, hundred)
                                          ELSE FracEq(sc.work_score, work)
            /\ FracEq(sc.break_score, Frac(m.break_compliance, 10))
            /\ IF FracLess(hundred, focus) THEN FracEq(sc.focus_score, hundred)
                                           ELSE FracEq(sc.focus_score, focus)
            /\ FracEq(FracMulInt(sc.overall_score, 3),
                      FracAdd(sc.work_score, FracAdd(sc.break_score, sc.focus_score)))
            /\ \A k \in DOMAIN sc :
                   IsRounded1(result.value.scores[k], sc[k][1], sc[k][2])

(* Five deep-work sessions and 600 work minutes: both caps apply. *)
C8_Witness ==
    /\ Dashboarded
    /\ result.value.metrics.deep_work_sessions = 5
    /\ result.value.metrics.work_minutes = 600
    /\ result.value.scores.focus_score = 1000
    /\ result.value.scores.work_score = 1000

(* C9: the breaks ring has goal = max(1, total_breaks), so goal >= 1 also  *)
(* on a day with no break_shown event, and current = breaks_completed.     *)
C9_BreaksRing ==
    Dashboarded =>
        LET ring == result.value.rings.breaks
            total == ShownIn(result.activities)
        IN  /\ ring.goal = (IF total > 1 THEN total ELSE 1)
            /\ ring.goal >= 1
            /\ ring.current = CompletedIn(result.activities)

(* A day with events but no break shown: goal 1, one break completed. *)
C9_Witness ==
    /\ Dashboarded
    /\ result.activities # <<>>
    /\ ShownIn(result.activities) = 0
    /\ result.value.rings.breaks.goal = 1
    /\ result.value.rings.breaks.current = 1

ParsedMinutes(activities) ==
    {FromIsoformat(activities[i].timestamp).minute :
        i \in {j \in 1..Len(activities) :
                  /\ "timestamp" \in DOMAIN activities[j]
                  /\ FromIsoformat(activities[j].timestamp).ok}}

ParsedCount(activities) ==
    Cardinality({j \in 1..Len(activities) :
                    /\ "timestamp" \in DOMAIN activities[j]
                    /\ FromIsoformat(activities[j].timestamp).ok})

(* C10: active_duration_hours is the difference in hours, rounded to one   *)
(* decimal, between the earliest and the latest timestamp among the events *)
(* whose timestamp parses when at least two parse, whatever the timestamps *)
(* of the other events, and 0 when fewer than two parse.                   *)
C10_ActiveDurationOverParsedEvents ==
    Summarised =>
        LET minutes == ParsedMinutes(result.activities)
            reported == result.value.active_duration_hours
        IN  IF ParsedCount(result.activities) >= 2
            THEN LET earliest == CHOOSE m \in minutes : \A n \in minutes : m <= n
                     latest == CHOOSE m \in minutes : \A n \in minutes : n <= m
                 IN  IsRounded1(reported, latest - earliest, 60)
            ELSE reported = 0

BreakTypeIn(activities, break_type) ==
    Cardinality({i \in 1..Len(activities) :
                    /\ EventTypeOf(activities[i]) = "break_shown"
                    /\ "event_data" \in DOMAIN activities[i]
                    /\ "break_type" \in DOMAIN activities[i].event_data
                    /\ activities[i].event_data.break_type = break_type})

(* The preferred break type a document reports, when it reports one. *)
ReportsPreferred ==
    (Projected /\ result.raised = "none") \/ Dashboarded

ReportedPreferred == result.value.behavior_patterns.preferred_break_type

(* C11: preferred_break_type is the break type of greatest count, "none"   *)
(* when break_types is empty or all its counts are zero (also on a day of  *)
(* events with no recognized break_shown), eye_care winning a tie.         *)
C11_PreferredBreakType ==
    ReportsPreferred =>
        LET eye == BreakTypeIn(result.activities, "eye_care")
            custom == BreakTypeIn(result.activities, "custom_message")
        IN  ReportedPreferred =
                (IF eye = 0 /\ custom = 0 THEN "none"
                 ELSE IF eye >= custom THEN "eye_care" ELSE "custom_message")

Loaded == result.op = "load_daily_activities"

(* The positions of the lines of the file that decode to a record. *)
ValidPositions(lines) == {i \in 1..Len(lines) : lines[i].text = "json"}

(* activities is the records of the decodable lines, in file order. *)
IsValidRecordsOf(activities, lines) ==
    /\ Len(activities) = Cardinality(ValidPositions(lines))
    /\ \A i \in ValidPositions(lines) :
           activities[Cardinality({j \in ValidPositions(lines) : j <= i})] = lines[i].obj

C13_IoFailureGivesEmpty ==
    (Loaded /\ result.exists /\ result.failAt # NoFail) =>
        /\ result.raised = "none"
        /\ result.value = <<>>

DocumentParts == {"metrics", "scores", "rings", "insights"}

(***************************************************************************)
(* C14: whatever the summarizer call does (success, non-zero exit, raised  *)
(* exception such as a timeout, script absent), get_dashboard_data returns *)
(* the document, and its metrics, scores, rings and insights are those     *)
(* returned when the summarizer succeeds on the same log.                  *)
(***************************************************************************)
C14_DocumentSurvivesSummarizer ==
    Dashboarded =>
        /\ result.summarizer \in SummarizerOutcomes
        /\ result.raised = "none"
        /\ \A part \in DocumentParts :
               /\ part \in DOMAIN result.value
               /\ result.value[part] =
                      get_dashboard_data(result.activities, "ok")[part]

C14_Witness ==
    /\ Dashboarded
    /\ result.summarizer = "exception"
    /\ Len(result.activities) = 2
    /\ result.raised = "none"
    /\ result.value.metrics.breaks_completed = 1
    /\ result.value.insights # <<>>
    /\ result.value.ai_summary = AiError

(* The outcomes in which the summarizer failed: its process exited         *)
(* non-zero (ai_summary.py main returns 1 on any exception of the          *)
(* provider call) or the call itself raised (timeout).                     *)
SummarizerFailed == result.summarizer \in {"nonzero_exit", "exception"}

(***************************************************************************)
(* C15: whenever the summarizer fails, by a non-zero exit or by a raised   *)
(* exception, the ai_summary of the document is a string that explains the *)
(* failure: neither empty nor a summary text.                              *)
(***************************************************************************)
C15_FailureExplained ==
    (Dashboarded /\ SummarizerFailed) =>
        /\ result.value.ai_summary # ""
        /\ result.value.ai_summary # AiStdout

AtBoundary ==
    result.op \in {"daily_summary_main", "ai_summary_main",
                   "api_data_handler", "api_summary_handler"}

(***************************************************************************)
(* C16: at every boundary that takes a date (the two command lines, the    *)
(* /api/data and /api/summary handlers), a date string not in YYYY-MM-DD   *)
(* format is rejected as an input error and no day's log is loaded or      *)
(* analysed for the request.                                               *)
(***************************************************************************)
C16_InvalidDateRejected ==
    (AtBoundary /\ result.request.date = InvalidDate) =>
        /\ result.status = "input_error"
        /\ result.days_loaded = <<>>
        /\ result.value = EmptyDict

(* The events of the hour among those whose timestamp parses. *)
EventsInHour(activities, hour) ==
    Cardinality({j \in 1..Len(activities) :
                    /\ "timestamp" \in DOMAIN activities[j]
                    /\ FromIsoformat(activities[j].timestamp).ok
                    /\ FromIsoformat(activities[j].timestamp).hour = hour})

(***************************************************************************)
(* C17: the document's hourly_activity has exactly 24 entries, for the     *)
(* hours 0..23 in ascending order, and the activity_count of each is the   *)
(* number of events the analysis counted in that hour, 0 when there is     *)
(* none, a day without any event included.                                 *)
(***************************************************************************)
C17_HourlyZeroFilled ==
    Dashboarded =>
        LET hourly_data == result.value.hourly_activity
        IN  /\ Len(hourly_data) = 24
            /\ \A i \in 1..24 :
                   /\ hourly_data[i].hour = i - 1
                   /\ hourly_data[i].activity_count =
                          EventsInHour(result.activities, i - 1)

(* The target day of a request that was not rejected. *)
TargetDay == IF result.request.date = Yesterday THEN 1 ELSE 0

MultiDayRequest ==
    /\ result.op = "daily_summary_main"
    /\ result.request.date # InvalidDate
    /\ result.request.days >= 2

(***************************************************************************)
(* C18: a request for N >= 2 days at a target date returns a document      *)
(* {date_range, days} whose days list has one entry per day of the window: *)
(* the N consecutive dates that end at the target date, the most recent    *)
(* first.                                                                  *)
(***************************************************************************)
C18_MultiDayDocument ==
    MultiDayRequest =>
        LET N == result.request.days
        IN  /\ result.status = "ok"
            /\ result.raised = "none"
            /\ {"date_range", "days"} \subseteq DOMAIN result.value
            /\ result.value.date_range =
                   [from |-> Strftime(TargetDay + N - 1), to |-> Strftime(TargetDay)]
            /\ Len(result.value.days) = N
            /\ \A n \in 1..N :
                   result.value.days[n].date = Strftime(TargetDay + n - 1)

(* The same for requests in the plain format only. *)
C18_PlainFormat ==
    (MultiDayRequest /\ ~result.request.ai_format) => C18_MultiDayDocument

(* The orderings of a sequence. *)
Reorderings(activities) ==
    {[i \in 1..Len(activities) |-> activities[p[i]]] :
        p \in Permutations(1..Len(activities))}

OrderFreeKeys ==
    {"total_breaks", "breaks_completed", "deep_work_sessions", "commands_used",
     "pause_events", "reschedule_count", "break_types", "break_compliance"}

(* Two analyses with the same counters and the same count for every hour. *)
SameCounts(a, b) ==
    /\ DOMAIN a = DOMAIN b
    /\ \A k \in OrderFreeKeys \cap DOMAIN a : a[k] = b[k]
    /\ \A hour \in 0..23 :
           HourlyGet(a.hourly_activity, hour) = HourlyGet(b.hourly_activity, hour)

(***************************************************************************)
(* C19: the reducer gives every reordering of a day's events the same      *)
(* count for each hour and the same counters (total_breaks,                *)
(* breaks_completed, deep_work_sessions, commands_used, pause_events,      *)
(* reschedule_count, break_types, break_compliance) as the day itself.     *)
(***************************************************************************)
C19_CountsOrderIndependent ==
    Summarised =>
        \A reordered \in Reorderings(result.activities) :
            SameCounts(analyze_daily_patterns(reordered), result.value.analysis)

(* A day of three events of kinds that differ, whose six orderings yield   *)
(* two different snapshots of the work minutes.                            *)
C19_Witness ==
    /\ Summarised
    /\ Len(result.activities) = 3
    /\ Cardinality(Reorderings(result.activities)) = 6
    /\ result.value.analysis.total_breaks = 1
    /\ result.value.analysis.breaks_completed = 1
    /\ Len(result.value.analysis.hourly_activity) = 3
    /\ \E reordered \in Reorderings(result.activities) :
           analyze_daily_patterns(reordered).total_work_minutes #
               result.value.analysis.total_work_minutes

(***************************************************************************)
(* C20: on a day without any break_shown event (total_breaks = 0) the      *)
(* frequent-reschedule warning is absent from the insights, however many   *)
(* break_rescheduled events the day has.                                   *)
(***************************************************************************)
C20_NoRescheduleWarningWithoutBreaks ==
    (Summarised /\ CountOfType(result.activities, "break_shown") = 0) =>
        ~HasInsight(result.value.analysis.insights, "frequent_rescheduling")

(* The hours in which some event with a parsing timestamp falls. *)
ActiveHours(activities) ==
    {hour \in 0..23 : EventsInHour(activities, hour) > 0}

(* The rank of an hour among the active hours: more events first, the      *)
(* lower hour first among hours of as many events.                         *)
HourRank(activities, hour) ==
    1 + Cardinality({g \in ActiveHours(activities) :
            \/ EventsInHour(activities, g) > EventsInHour(activities, hour)
            \/ /\ EventsInHour(activities, g) = EventsInHour(activities, hour)
               /\ g < hour})

PeakInsightsOf(insights) ==
    SelectSeq(insights, LAMBDA s : s.rule = "most_active_hours")

(***************************************************************************)
(* C21: the "most active hours" insight is emitted exactly when some event *)
(* has a parsed hour, and it lists the (at most) three hours of most       *)
(* events, more events first and, among hours of as many events, the lower *)
(* hour first, whatever the order in which the hours first appear.         *)
(***************************************************************************)
C21_PeakHoursByCountThenHour ==
    Summarised =>
        LET activities == result.activities
            peak == PeakInsightsOf(result.value.analysis.insights)
            listed == Min2(3, Cardinality(ActiveHours(activities)))
        IN  IF ActiveHours(activities) = {} THEN peak = <<>>
            ELSE /\ Len(peak) = 1
                 /\ Len(peak[1].args) = listed
                 /\ \A i \in 1..listed :
                        /\ peak[1].args[i] \in ActiveHours(activities)
                        /\ HourRank(activities, peak[1].args[i]) = i

DeepWorkIn(activities) ==
    Cardinality({i \in 1..Len(activities) :
        /\ EventTypeOf(activities[i]) = "session_started"
        /\ "event_data" \in DOMAIN activities[i]
        /\ "session_type" \in DOMAIN activities[i].event_data
        /\ activities[i].event_data.session_type = "deep_work"})

(* The place of a rule in the evaluation order; rules 1 and 2 exclude each *)
(* other and share the first place.                                        *)
RulePlace(rule) ==
    CASE rule \in {"low_break_compliance", "excellent_break_compliance"} -> 1
      [] rule = "deep_work_sessions" -> 3
      [] rule = "frequent_rescheduling" -> 4
      [] rule = "multiple_pause_resume" -> 5
      [] rule = "active_voice_commands" -> 6
      [] rule = "most_active_hours" -> 7
      [] OTHER -> 0

(***************************************************************************)
(* C22: rules 3 to 6 each fire exactly when their own condition holds      *)
(* (deep_work_sessions > 0; reschedule_count > 0.3 * total_breaks;         *)
(* pause_events > 3; commands_used > 5) whatever the other rules do, each  *)
(* rule gives at most one string, and the strings stand in rule order.     *)
(***************************************************************************)
C22_CounterRulesIndependent ==
    (Summarised /\ result.activities # <<>>) =>
        LET activities == result.activities
            insights == result.value.analysis.insights
        IN  /\ HasInsight(insights, "deep_work_sessions")
                   <=> DeepWorkIn(activities) > 0
            /\ HasInsight(insights, "frequent_rescheduling")
                   <=> 10 * CountOfType(activities, "break_rescheduled")
                           > 3 * CountOfType(activities, "break_shown")
            /\ HasInsight(insights, "multiple_pause_resume")
                   <=> CountOfType(activities, "pause_toggled") > 3
            /\ HasInsight(insights, "active_voice_commands")
                   <=> CountOfType(activities, "command_received") > 5
            /\ \A i \in 1..Len(insights) : RulePlace(insights[i].rule) > 0
            /\ \A i, j \in 1..Len(insights) :
                   i < j => RulePlace(insights[i].rule) < RulePlace(insights[j].rule)

(* A day on which rules 3, 4, 5 and 6 all fire. *)
C22_Witness ==
    /\ Summarised
    /\ CountOfType(result.activities, "pause_toggled") = 4
    /\ CountOfType(result.activities, "command_received") = 6
    /\ LET insights == result.value.analysis.insights
       IN  [i \in 1..Len(insights) |-> RulePlace(insights[i].rule)]
               = <<1, 3, 4, 5, 6, 7>>

CounterNames ==
    {"total_breaks", "breaks_completed", "deep_work_sessions", "commands_used",
     "pause_events", "reschedule_count", "break_types"}

(* The counters an event of the type may change. *)
CounterFamily(event_type) ==
    CASE event_type = "break_shown" -> {"total_breaks", "break_types"}
      [] event_type = "break_completed" -> {"breaks_completed"}
      [] event_type = "session_started" -> {"deep_work_sessions"}
      [] event_type = "command_received" -> {"commands_used"}
      [] event_type = "pause_toggled" -> {"pause_events"}
      [] event_type = "break_rescheduled" -> {"reschedule_count"}
      [] OTHER -> {}

(* The counter of the family that every event of the type adds one to;     *)
(* session_started adds to its counter for a deep_work session only.       *)
CountedBy(event_type) ==
    CASE event_type = "break_shown" -> {"total_breaks"}
      [] event_type = "break_completed" -> {"breaks_completed"}
      [] event_type = "command_received" -> {"commands_used"}
      [] event_type = "pause_toggled" -> {"pause_events"}
      [] event_type = "break_rescheduled" -> {"reschedule_count"}
      [] OTHER -> {}

(* A counter of an analysis, at its start value where the analysis of the  *)
(* empty day leaves it out.                                                *)
CounterOf(analysis, name) ==
    IF name = "break_types"
    THEN (IF Get(analysis, name, EmptyDict) = EmptyDict
          THEN [eye_care |-> 0, custom_message |-> 0] ELSE analysis[name])
    ELSE Get(analysis, name, 0)

(***************************************************************************)
(* C23: processing one more event changes only counters of the family its  *)
(* event_type selects and adds one to that family's count (for             *)
(* session_started: when the session is a deep_work one); every other      *)
(* counter is as it was, and an event of unrecognized type changes none.   *)
(***************************************************************************)
C23_OneCounterFamilyPerEvent ==
    (Summarised /\ result.activities # <<>>) =>
        LET activities == result.activities
            last == activities[Len(activities)]
            event_type == EventTypeOf(last)
            before == analyze_daily_patterns(SubSeq(activities, 1, Len(activities) - 1))
            after == result.value.analysis
        IN  /\ \A name \in CounterNames \ CounterFamily(event_type) :
                   CounterOf(after, name) = CounterOf(before, name)
            /\ \A name \in CountedBy(event_type) :
                   CounterOf(after, name) = CounterOf(before, name) + 1
            /\ event_type = "session_started" =>
                   CounterOf(after, "deep_work_sessions") =
                       CounterOf(before, "deep_work_sessions")
                       + (IF DeepWorkIn(<<last>>) = 1 THEN 1 ELSE 0)

(* A pause event processed after a shown break and a command. *)
C23_Witness ==
    /\ Summarised
    /\ Len(result.activities) = 3
    /\ EventTypeOf(result.activities[1]) = "break_shown"
    /\ EventTypeOf(result.activities[2]) = "command_received"
    /\ EventTypeOf(result.activities[3]) = "pause_toggled"
    /\ result.value.analysis.pause_events = 1
    /\ result.value.analysis.total_breaks = 1
    /\ result.value.analysis.commands_used = 1

BreakTypeKeys == {"eye_care", "custom_message"}

(* The break_shown events whose break_type is absent or not a known key. *)
UnrecognizedShownIn(activities) ==
    Cardinality({i \in 1..Len(activities) :
        /\ EventTypeOf(activities[i]) = "break_shown"
        /\ ~(/\ "event_data" \in DOMAIN activities[i]
             /\ "break_type" \in DOMAIN activities[i].event_data
             /\ activities[i].event_data.break_type \in BreakTypeKeys)})

(***************************************************************************)
(* C24: break_types has no key outside {eye_care, custom_message}; a       *)
(* break_shown event of missing or unrecognized break_type adds to         *)
(* total_breaks and to no break_types count, so the break_types counts sum *)
(* to total_breaks less those events, never to more than total_breaks.     *)
(***************************************************************************)
C24_BreakTypesFixedKeys ==
    Summarised =>
        LET analysis == result.value.analysis
            break_types == analysis.break_types
        IN  /\ DOMAIN break_types \subseteq BreakTypeKeys
            /\ result.activities # <<>> =>
                   /\ DOMAIN break_types = BreakTypeKeys
                   /\ analysis.total_breaks = ShownIn(result.activities)
                   /\ break_types.eye_care + break_types.custom_message
                          = analysis.total_breaks
                              - UnrecognizedShownIn(result.activities)
                   /\ break_types.eye_care + break_types.custom_message
                          <= analysis.total_breaks

(* A day with a break of unrecognized type (stretch) beside known ones. *)
C24_Witness ==
    /\ Summarised
    /\ UnrecognizedShownIn(result.activities) = 1
    /\ result.value.analysis.total_breaks = 3
    /\ result.value.analysis.break_types = [eye_care |-> 1, custom_message |-> 1]

(***************************************************************************)
(* C25: hourly_activity has only hours 0..23 as keys, each once and with a *)
(* count of at least 1, and its counts sum to the number of events whose   *)
(* timestamp parses; an event whose timestamp is missing or malformed is   *)
(* left out of it while its event_type is counted all the same.            *)
(***************************************************************************)
C25_HistogramOfParsedEvents ==
    Summarised =>
        LET activities == result.activities
            analysis == result.value.analysis
            hourly == analysis.hourly_activity
        IN  /\ \A i \in 1..Len(hourly) :
                   /\ hourly[i][1] \in 0..23
                   /\ hourly[i][2] >= 1
                   /\ hourly[i][2] = EventsInHour(activities, hourly[i][1])
                   /\ \A j \in 1..Len(hourly) : hourly[j][1] = hourly[i][1] => j = i
            /\ SumCounts(hourly) = ParsedCount(activities)
            /\ activities # <<>> =>
                   /\ analysis.total_breaks = CountOfType(activities, "break_shown")
                   /\ analysis.commands_used =
                          CountOfType(activities, "command_received")

(* A day of a break without timestamp, a command with a malformed one and  *)
(* one event whose timestamp parses.                                       *)
C25_Witness ==
    /\ Summarised
    /\ Len(result.activities) = 3
    /\ ParsedCount(result.activities) = 1
    /\ \E i \in 1..3 : /\ "timestamp" \notin DOMAIN result.activities[i]
                       /\ EventTypeOf(result.activities[i]) = "break_shown"
    /\ \E i \in 1..3 : /\ "timestamp" \in DOMAIN result.activities[i]
                       /\ result.activities[i].timestamp = TBad
                       /\ EventTypeOf(result.activities[i]) = "command_received"
    /\ result.value.analysis.total_breaks = 1
    /\ result.value.analysis.commands_used = 1
    /\ SumCounts(result.value.analysis.hourly_activity) = 1

(***************************************************************************)
(* C26: peak_activity_hours of the AI-facing document is the set of hours  *)
(* with at least one event, listed in ascending hour order, whatever the   *)
(* order in which the hours first occur in the log.                        *)
(***************************************************************************)
C26_PeakActivityHoursAscending ==
    (Projected /\ result.raised = "none") =>
        LET hours == result.value.behavior_patterns.peak_activity_hours
        IN  /\ {hours[i] : i \in 1..Len(hours)} = ActiveHours(result.activities)
            /\ \A i, j \in 1..Len(hours) : i < j => hours[i] < hours[j]

(* 100 * breaks_completed / total_breaks of the loaded events, unrounded. *)
ExactCompliance(activities) ==
    Frac(100 * CompletedIn(activities), ShownIn(activities))

(* The published overall_score is the mean over the exact compliance,      *)
(* rounded once.                                                           *)
OverallRoundedOnce ==
    LET sc == result.locals
        exact == OverallScore(sc.work_score, ExactCompliance(result.activities),
                              sc.focus_score)
    IN  IsRounded1(result.value.scores.overall_score, exact[1], exact[2])

(***************************************************************************)
(* C27: overall_score is computed from the unrounded work_score,           *)
(* break_score and focus_score and rounded to one decimal once; the break  *)
(* compliance that enters the mean is the exact ratio                      *)
(* 100 * breaks_completed / total_breaks, not a value rounded before.      *)
(***************************************************************************)
C27_OverallFromExactValues ==
    (Dashboarded /\ ShownIn(result.activities) > 0) =>
        /\ FracEq(result.locals.break_score, ExactCompliance(result.activities))
        /\ OverallRoundedOnce

(***************************************************************************)
(* C28: in one document a successfully obtained ai_summary comes from the  *)
(* log the metrics come from: the activities the summarizer subprocess     *)
(* loaded are those get_dashboard_data analysed, also with a custom config *)
(* directory and also when the producer appends between the two reads.     *)
(***************************************************************************)
C28_SummaryOfSameLog ==
    (Dashboarded /\ result.summarizer = "ok") =>
        result.summary_of = result.activities

(* The race alone: a dashboard on the default config root. *)
C28_DefaultRoot ==
    (Dashboarded /\ result.summarizer = "ok" /\ dashboard.config_dir = "default") =>
        result.summary_of = result.activities
====
